---- MODULE Spec2Model ----
(***************************************************************************)
(* TimeSeriesLoader of nixtla/data/tsloader.py: construction, the series   *)
(* level and window level eligibility filters, the windowing of the padded *)
(* tensor, the batch sampler, the indexing operation and the iterator.     *)
(*                                                                         *)
(* Series are numbered from 0 as in the code; tensors are sequences, so    *)
(* row j (0-based) of a tensor is element j + 1 of its sequence.           *)
(* An Optional argument is <<>> for None and <<v>> for the value v.        *)
(***************************************************************************)
EXTENDS Integers, Sequences, FiniteSets, TLC

VARIABLES ts_tensor,     \* the dataset: series -> [y, available_mask, sample_mask]
          args,          \* the arguments the loader is constructed with
          status,        \* "new", "ok" (loader constructed), "raised"
          self,          \* the loader's attributes (NoLoader until constructed)
          pc,            \* the generator of __iter__: "idle" (none), "created",
                         \* "running" (at a yield), "done", "failed"
          restarted,     \* TRUE when this generator follows an earlier one
          sample_idxs,   \* the generator's local sample_idxs
          idx,           \* the generator's loop variable
          handed,        \* the ts_idxs chunks handed to self[...] in this pass
          prev_result,   \* the outcome of the indexing call before the last one
          index,         \* the argument of the last indexing call
          result,        \* its outcome: "none", "ok", "RuntimeError", "AssertionError"
          n_windows,     \* len(windows) of the last indexing call that built windows
          windows_idxs,  \* the flat window rows the last batch was gathered from
          batch          \* the last batch returned

vars == <<ts_tensor, args, status, self, pc, restarted, sample_idxs, idx, handed,
          prev_result, index, result, n_windows, windows_idxs, batch>>

loaderVars == <<ts_tensor, args, status, self>>
iterVars == <<pc, restarted, sample_idxs, idx, handed>>
callVars == <<prev_result, index, result, n_windows, windows_idxs, batch>>

-----------------------------------------------------------------------------
(* Bounds of the exploration *)

MaxLen == 3        \* max_len of the dataset: time steps per series
MaxSeries == 2     \* the datasets explored hold 1..MaxSeries series

-----------------------------------------------------------------------------
(* Sequence helpers *)

RECURSIVE Sum(_)
Sum(s) == IF Len(s) = 0 THEN 0 ELSE Head(s) + Sum(Tail(s))

Min(a, b) == IF a < b THEN a ELSE b
Max(a, b) == IF a > b THEN a ELSE b

Zeros(n) == [t \in 1..n |-> 0]
Ones(n) == [t \in 1..n |-> 1]

Range(s) == {s[j] : j \in 1..Len(s)}

\* all sequences of length n over the set S
SeqsOfLen(S, n) == [1..n -> S]

-----------------------------------------------------------------------------
(* The series store (TimeSeriesDataset) *)

\* one series: the y channel names the series and the time step
SeriesPatterns(i) ==
    LET y == [t \in 1..MaxLen |-> 10 * (i + 1) + t]
    IN  { [y |-> y, available_mask |-> Ones(MaxLen), sample_mask |-> Ones(MaxLen)],
          [y |-> y, available_mask |-> Ones(MaxLen),
           sample_mask |-> Ones(MaxLen - 1) \o <<0>>],
          [y |-> y, available_mask |-> <<0>> \o Ones(MaxLen - 1),
           sample_mask |-> <<0>> \o Ones(MaxLen - 1)],
          [y |-> y, available_mask |-> Ones(MaxLen),
           sample_mask |-> Zeros(MaxLen - 1) \o <<1>>] }

DatasetsOfSize(n) ==
    {d \in [0..(n - 1) -> UNION {SeriesPatterns(i) : i \in 0..(n - 1)}] :
        \A i \in 0..(n - 1) : d[i] \in SeriesPatterns(i)}

n_series == Cardinality(DOMAIN ts_tensor)

\* the static row of series i
s_matrix(i) == 100 + i

\* ts_dataset.get_filtered_ts_tensor: the requested series, in the order
\* requested, cut to the trailing window_sampling_limit time steps
GetFilteredTsTensor(window_sampling_limit, ts_idxs) ==
    LET first_ds == Max(MaxLen - window_sampling_limit, 0)
    IN  [p \in 1..Len(ts_idxs) |->
            [y |-> SubSeq(ts_tensor[ts_idxs[p]].y, first_ds + 1, MaxLen),
             available_mask |-> SubSeq(ts_tensor[ts_idxs[p]].available_mask, first_ds + 1, MaxLen),
             sample_mask |-> SubSeq(ts_tensor[ts_idxs[p]].sample_mask, first_ds + 1, MaxLen)]]

-----------------------------------------------------------------------------
(* TimeSeriesLoader.__init__ *)

NoLoader == [model |-> "none"]
NoBatch == [S |-> <<>>, Y |-> <<>>, available_mask |-> <<>>,
            sample_mask |-> <<>>, idxs |-> <<>>]

\* self.n_series_per_batch
NSeriesPerBatch(n_series_per_batch, batch_size, ns) ==
    IF Len(n_series_per_batch) > 0 THEN n_series_per_batch[1]
    ELSE Min(batch_size, ns)

\* raise Exception('Insufficient len of sample chunks')
LenSampleChunksRaises(len_sample_chunks, input_size, output_size) ==
    /\ Len(len_sample_chunks) > 0
    /\ len_sample_chunks[1] < input_size + output_size

\* self.len_sample_chunks
LenSampleChunksOf(len_sample_chunks, input_size, output_size) ==
    IF Len(len_sample_chunks) > 0 THEN len_sample_chunks[1]
    ELSE input_size + output_size

\* the protections without the assertion on the series count
ProtectionsFailNoCount(batch_size, nspb, ns) == ~(batch_size % nspb = 0)

\* the two "Dataloader protections" assertions; TRUE when one of them fails
ProtectionsFail(batch_size, nspb, ns) ==
    \/ ~(batch_size % nspb = 0)
    \/ ~(nspb <= ns)

\* _define_attributes_by_model: the else branch raises
ModelRaises(model) == model \notin {"nbeats", "esrnn"}

\* _define_attributes_by_model: windows_size
WindowsSize(model, input_size, output_size, len_sample_chunks) ==
    IF model \in {"nbeats"} THEN input_size + output_size ELSE len_sample_chunks

\* _define_attributes_by_model: padding
Padding(model, input_size, output_size) ==
    IF model \in {"nbeats"} THEN <<input_size, output_size>> ELSE <<0, 0>>

\* _define_sampleable_ts_idxs: min_mask
MinMask(complete_inputs, windows_size, output_size) ==
    IF complete_inputs THEN windows_size ELSE output_size

\* the comparison with >= in place of >
AtLeastMinMask(sum_sample_mask, min_mask) == sum_sample_mask >= min_mask

\* _define_sampleable_ts_idxs: the comparison handed to np.argwhere
AboveMinMask(sum_sample_mask, min_mask) == sum_sample_mask > min_mask

\* np.argwhere(cond).reshape(1, -1)[0] over the series 0..n-1: ascending
RECURSIVE ArgWhere(_, _)
ArgWhere(cond, n) ==
    IF n = 0 THEN <<>>
    ELSE IF cond[n - 1] THEN Append(ArgWhere(cond, n - 1), n - 1)
         ELSE ArgWhere(cond, n - 1)

\* _define_sampleable_ts_idxs: sampleable_ts_idxs
DefineSampleableTsIdxs(complete_inputs, windows_size, output_size) ==
    LET sum_sample_mask == [i \in DOMAIN ts_tensor |-> Sum(ts_tensor[i].sample_mask)]
        min_mask == MinMask(complete_inputs, windows_size, output_size)
    IN  ArgWhere([i \in DOMAIN ts_tensor |-> AboveMinMask(sum_sample_mask[i], min_mask)],
                 n_series)

\* the division rounded down in place of np.ceil
NBatchesFloor(n_sampleable_ts, nspb) == n_sampleable_ts \div nspb

\* a loader that always plans one batch at least
NBatchesAtLeastOne(n_sampleable_ts, nspb) ==
    Max(1, (n_sampleable_ts + nspb - 1) \div nspb)

\* int(np.ceil(n_sampleable_ts / n_series_per_batch))
NBatches(n_sampleable_ts, nspb) == (n_sampleable_ts + nspb - 1) \div nspb

\* TRUE when __init__ raises for these arguments
InitRaises(a) ==
    \/ LenSampleChunksRaises(a.len_sample_chunks, a.input_size, a.output_size)
    \/ ProtectionsFail(a.batch_size,
                       NSeriesPerBatch(a.n_series_per_batch, a.batch_size, n_series),
                       n_series)
    \/ ModelRaises(a.model)

\* the attributes __init__ leaves on the loader
InitLoader(a) ==
    LET nspb == NSeriesPerBatch(a.n_series_per_batch, a.batch_size, n_series)
        lsc == LenSampleChunksOf(a.len_sample_chunks, a.input_size, a.output_size)
        ws == WindowsSize(a.model, a.input_size, a.output_size, lsc)
        sam == DefineSampleableTsIdxs(a.complete_inputs, ws, a.output_size)
    IN  [model |-> a.model,
         window_sampling_limit |-> a.window_sampling_limit,
         input_size |-> a.input_size,
         output_size |-> a.output_size,
         batch_size |-> a.batch_size,
         complete_inputs |-> a.complete_inputs,
         idx_to_sample_freq |-> a.idx_to_sample_freq,
         n_series_per_batch |-> nspb,
         len_sample_chunks |-> lsc,
         shuffle |-> a.shuffle,
         windows_size |-> ws,
         padding |-> Padding(a.model, a.input_size, a.output_size),
         sampleable_ts_idxs |-> sam,
         n_sampleable_ts |-> Len(sam),
         n_batches |-> NBatches(Len(sam), nspb)]

-----------------------------------------------------------------------------
(* _create_windows_tensor *)

\* t.nn.ConstantPad1d(padding, value=0) on one channel
ConstantPad1d(padding, seq) == Zeros(padding[1]) \o seq \o Zeros(padding[2])

\* tensor.unfold(dimension=-1, size, step) on one channel of one series
Unfold(seq, size, step) ==
    [p \in 1..((Len(seq) - size) \div step + 1) |->
        SubSeq(seq, (p - 1) * step + 1, (p - 1) * step + size)]

\* np.tile in place of repeat: the whole sequence repeats times over
Tile(seq, repeats) ==
    [j \in 1..(Len(seq) * repeats) |-> seq[((j - 1) % Len(seq)) + 1]]

\* ndarray.repeat(repeats): every element repeats times in a row
Repeat(seq, repeats) ==
    [j \in 1..(Len(seq) * repeats) |-> seq[((j - 1) \div repeats) + 1]]

\* padder(tensor) on one series
PadSerie(serie) ==
    [y |-> ConstantPad1d(self.padding, serie.y),
     available_mask |-> ConstantPad1d(self.padding, serie.available_mask),
     sample_mask |-> ConstantPad1d(self.padding, serie.sample_mask)]

\* the padded tensor of the requested series
PaddedTensor(ix) ==
    CHOOSE padded \in { [p \in 1..Len(ix) |-> PadSerie(tensor[p])] :
                           tensor \in {GetFilteredTsTensor(self.window_sampling_limit, ix)} } :
        TRUE

\* the time length of the padded tensor
PaddedLen == Min(MaxLen, self.window_sampling_limit) + self.padding[1] + self.padding[2]

\* unfold fails when the window is longer than the padded tensor, reshape(-1, ...)
\* when no series is requested
CreateWindowsRaises(ix) ==
    \/ PaddedLen < self.windows_size
    \/ Len(ix) = 0

\* tensor.unfold on every channel of one series
UnfoldSerie(serie) ==
    [y |-> Unfold(serie.y, self.windows_size, self.idx_to_sample_freq),
     available_mask |-> Unfold(serie.available_mask,
                               self.windows_size, self.idx_to_sample_freq),
     sample_mask |-> Unfold(serie.sample_mask,
                            self.windows_size, self.idx_to_sample_freq)]

\* tensor.unfold on every requested series
UnfoldAll(tensor) == [p \in 1..Len(tensor) |-> UnfoldSerie(tensor[p])]

\* windows.permute(0, 2, 1, 3).reshape(-1, n_channels, windows_size): row
\* j is series j div k, window position j mod k
Flatten(unfolded, n_ts, k) ==
    [j \in 1..(n_ts * k) |->
        LET serie == ((j - 1) \div k) + 1
            pos == ((j - 1) % k) + 1
        IN  [y |-> unfolded[serie].y[pos],
             available_mask |-> unfolded[serie].available_mask[pos],
             sample_mask |-> unfolded[serie].sample_mask[pos]]]

\* s_matrix and ts_idxs, broadcast to the windows
Broadcast(windows, ix, windows_per_serie) ==
    [windows |-> windows,
     s_matrix |-> Repeat([p \in 1..Len(ix) |-> s_matrix(ix[p])], windows_per_serie),
     ts_idxs |-> Repeat(ix, windows_per_serie)]

\* each stage is computed once and handed to the next
CreateWindowsTensor(ix) ==
    CHOOSE cw \in
        { Broadcast(windows, ix, Len(windows) \div Len(ix)) :
            windows \in { Flatten(unfolded, Len(ix), Len(unfolded[1].y)) :
                unfolded \in { UnfoldAll(tensor) : tensor \in {PaddedTensor(ix)} } } } :
        TRUE

-----------------------------------------------------------------------------
(* _get_sampleable_windows_idxs *)

\* the Python slice seq[-n:]
LastSteps(seq, n) ==
    IF n = 0 \/ n >= Len(seq) THEN seq
    ELSE SubSeq(seq, Len(seq) - n + 1, Len(seq))

\* the Python slice seq[:-n]
AllButLastSteps(seq, n) ==
    IF n = 0 \/ n >= Len(seq) THEN <<>>
    ELSE SubSeq(seq, 1, Len(seq) - n)

\* sample_condition summed over the whole window, the slice forgotten
SampleConditionNoSlice(window, output_size) ==
    Sum(window.sample_mask) = output_size

\* sample_condition of one window
SampleCondition(window, output_size) ==
    Sum(LastSteps(window.sample_mask, output_size)) = output_size

\* available_condition of one window
AvailableCondition(window, windows_size, output_size) ==
    Sum(AllButLastSteps(window.available_mask, output_size)) = windows_size - output_size

\* the two conditions combined, per window row (from 0)
SamplingCondition(windows) ==
    [j \in 0..(Len(windows) - 1) |->
        IF self.complete_inputs
        THEN /\ AvailableCondition(windows[j + 1], self.windows_size, self.output_size)
             /\ SampleCondition(windows[j + 1], self.output_size)
        ELSE SampleCondition(windows[j + 1], self.output_size)]

\* sampling_idx before the assertion: the rows that fulfil the conditions
GetSampleableWindowsIdxs(windows) ==
    CHOOSE sampling_idx \in
        { ArgWhere(cond, Len(windows)) : cond \in {SamplingCondition(windows)} } : TRUE

\* the assertion left out
SamplingIdxNoAssert(sampling_idx) == TRUE

\* assert sampling_idx.size > 0
SamplingIdxAssert(sampling_idx) == Len(sampling_idx) > 0

-----------------------------------------------------------------------------
(* _windows_batch and __getitem__ *)

\* the outcomes of np.random.choice(a, size, replace)
RandomChoice(a, size, replace) ==
    IF replace THEN SeqsOfLen(Range(a), size)
    ELSE {p \in SeqsOfLen(Range(a), size) :
             \A u, v \in 1..size : u # v => p[u] # p[v]}

\* batch_size ignored whatever shuffle is
WindowsIdxsAll(sampleable_windows) == {sampleable_windows}

\* the values windows_idxs can take
WindowsIdxsChoices(sampleable_windows) ==
    IF self.shuffle THEN RandomChoice(sampleable_windows, self.batch_size, TRUE)
    ELSE {sampleable_windows}

\* the batch gathered at the rows w of the three tensors
Gather(cw, w) ==
    [S |-> [r \in 1..Len(w) |-> cw.s_matrix[w[r] + 1]],
     Y |-> [r \in 1..Len(w) |-> cw.windows[w[r] + 1].y],
     available_mask |-> [r \in 1..Len(w) |-> cw.windows[w[r] + 1].available_mask],
     sample_mask |-> [r \in 1..Len(w) |-> cw.windows[w[r] + 1].sample_mask],
     idxs |-> [r \in 1..Len(w) |-> cw.ts_idxs[w[r] + 1]]]

\* self[ix]: the effect of one indexing call on the caller's side
WindowsBatch(ix) ==
    /\ prev_result' = result
    /\ index' = ix
    /\ IF CreateWindowsRaises(ix)
       THEN /\ result' = "RuntimeError"
            /\ n_windows' = 0
            /\ windows_idxs' = <<>>
            /\ batch' = NoBatch
       ELSE \E cw \in {CreateWindowsTensor(ix)} :
            \E sampleable_windows \in {GetSampleableWindowsIdxs(cw.windows)} :
                /\ n_windows' = Len(cw.windows)
                /\ IF ~SamplingIdxAssert(sampleable_windows)
                   THEN /\ result' = "AssertionError"
                        /\ windows_idxs' = <<>>
                        /\ batch' = NoBatch
                   ELSE \E w \in WindowsIdxsChoices(sampleable_windows) :
                            /\ result' = "ok"
                            /\ windows_idxs' = w
                            /\ batch' = Gather(cw, w)

\* the series subsets a caller indexes with: distinct series, any order
Indexes ==
    UNION { {p \in SeqsOfLen(DOMAIN ts_tensor, n) :
                \A u, v \in 1..n : u # v => p[u] # p[v]} : n \in 1..n_series }

-----------------------------------------------------------------------------
(* __iter__ *)

\* sample_idxs as the generator derives it when it starts
SampleIdxsChoices ==
    IF self.shuffle
    THEN RandomChoice(self.sampleable_ts_idxs, self.n_sampleable_ts, FALSE)
    ELSE {self.sampleable_ts_idxs}

\* the Python slice seq[lo:hi] for 0 <= lo <= hi
Slice(seq, lo, hi) == SubSeq(seq, lo + 1, Min(hi, Len(seq)))

\* the slice one element too long
IterChunkOverlap(sidxs, i) ==
    SubSeq(sidxs, i * self.n_series_per_batch + 1,
           Min((i + 1) * self.n_series_per_batch + 1, Len(sidxs)))

\* ts_idxs of loop round i
IterChunk(sidxs, i) ==
    Slice(sidxs, i * self.n_series_per_batch, (i + 1) * self.n_series_per_batch)

-----------------------------------------------------------------------------
(* The state machine *)

InitWith(datasets, argspace) ==
    /\ ts_tensor \in datasets
    /\ args \in argspace
    /\ status = "new"
    /\ self = NoLoader
    /\ pc = "idle"
    /\ restarted = FALSE
    /\ sample_idxs = <<>>
    /\ idx = 0
    /\ handed = <<>>
    /\ prev_result = "none"
    /\ index = <<>>
    /\ result = "none"
    /\ n_windows = 0
    /\ windows_idxs = <<>>
    /\ batch = NoBatch

\* TimeSeriesLoader(ts_dataset, model, ...)
Construct ==
    /\ status = "new"
    /\ IF InitRaises(args)
       THEN status' = "raised" /\ self' = NoLoader
       ELSE status' = "ok" /\ self' = InitLoader(args)
    /\ UNCHANGED <<ts_tensor, args, iterVars, callVars>>

\* loader[ix], called by the user of a loader that is not being iterated: a
\* first call, or the retry with another subset after a call that failed
GetItem ==
    /\ status = "ok"
    /\ pc = "idle"
    /\ result # "ok"
    /\ \E ix \in Indexes : WindowsBatch(ix)
    /\ UNCHANGED <<loaderVars, iterVars>>

\* iter(loader): a new generator, which has not run yet; the user either
\* indexes the loader or iterates it, and may iterate it again after a pass
Iter ==
    /\ status = "ok"
    /\ pc \in {"idle", "done", "failed"}
    /\ pc = "idle" => result = "none"
    /\ pc' = "created"
    /\ restarted' = (pc # "idle")
    /\ sample_idxs' = <<>>
    /\ idx' = 0
    /\ handed' = <<>>
    /\ UNCHANGED <<loaderVars, callVars>>

\* next(generator): runs the generator to its next yield, to its end or to
\* the exception of the batch; idx counts the rounds completed
IterNext ==
    /\ pc \in {"created", "running"}
    /\ \E sidxs \in (IF pc = "created" THEN SampleIdxsChoices ELSE {sample_idxs}) :
          /\ sample_idxs' = sidxs
          /\ IF idx < self.n_batches
             THEN /\ WindowsBatch(IterChunk(sidxs, idx))
                  /\ handed' = Append(handed, IterChunk(sidxs, idx))
                  /\ pc' = IF result' = "ok" THEN "running" ELSE "failed"
                  /\ idx' = IF result' = "ok" THEN idx + 1 ELSE idx
             ELSE /\ pc' = "done"
                  /\ UNCHANGED <<idx, handed, callVars>>
    /\ UNCHANGED <<loaderVars, restarted>>

Next == Construct \/ GetItem \/ Iter \/ IterNext

-----------------------------------------------------------------------------
(* Specifications: the same loader over three families of inputs *)

\* indexing: the window geometry varied; the padded family is shuffled
\* under stride 2 alone
WindowArgs ==
    [model : {"nbeats"}, window_sampling_limit : {MaxLen},
     input_size : {1, 2}, output_size : {1, 2}, idx_to_sample_freq : {1, 2},
     batch_size : {2}, complete_inputs : BOOLEAN, shuffle : {FALSE},
     len_sample_chunks : {<<>>}, n_series_per_batch : {<<>>}]
    \cup
    [model : {"nbeats"}, window_sampling_limit : {MaxLen},
     input_size : {1}, output_size : {1, 2}, idx_to_sample_freq : {2},
     batch_size : {2}, complete_inputs : BOOLEAN, shuffle : {TRUE},
     len_sample_chunks : {<<>>}, n_series_per_batch : {<<>>}]
    \cup
    [model : {"esrnn"}, window_sampling_limit : {MaxLen - 1, MaxLen},
     input_size : {1}, output_size : {1, 2}, idx_to_sample_freq : {1},
     batch_size : {2}, complete_inputs : BOOLEAN, shuffle : BOOLEAN,
     len_sample_chunks : {<<>>, <<3>>}, n_series_per_batch : {<<>>}]

Init == InitWith(UNION {DatasetsOfSize(n) : n \in 1..MaxSeries}, WindowArgs)

Spec == Init /\ [][Next]_vars

\* iteration: up to MaxSeries + 1 series, each fully sampleable or with a
\* single sampleable step, the series per batch varied; shuffled loaders
\* with one window geometry
IterDatasets ==
    UNION { {d \in DatasetsOfSize(n) :
                \A i \in 0..(n - 1) : Sum(d[i].available_mask) = MaxLen
                                      /\ Sum(d[i].sample_mask) \in {1, MaxLen}} :
            n \in 1..(MaxSeries + 1) }

IterArgs ==
    {a \in [model : {"nbeats"}, window_sampling_limit : {MaxLen},
            input_size : {1}, output_size : {1, 2}, idx_to_sample_freq : {2},
            batch_size : {1, 2}, complete_inputs : BOOLEAN, shuffle : BOOLEAN,
            len_sample_chunks : {<<>>},
            n_series_per_batch : {<<>>, <<1>>, <<2>>}] :
        a.shuffle => a.output_size = 1 /\ ~a.complete_inputs}

InitIter == InitWith(IterDatasets, IterArgs)

SpecIter == InitIter /\ [][Next]_vars

\* one window geometry, under a caller that only iterates and keeps asking
\* the generator for its next batch
FairArgs ==
    {a \in IterArgs : /\ a.output_size = 1 /\ ~a.complete_inputs
                      /\ a.batch_size = 2
                      /\ a.shuffle => a.n_series_per_batch = <<2>>}

InitIterFair == InitWith(IterDatasets, FairArgs)

NextIter == Construct \/ Iter \/ IterNext

SpecIterFair == InitIterFair /\ [][NextIter]_vars /\ WF_vars(IterNext)

\* construction alone, over valid and invalid arguments
ConstructArgs ==
    [model : {"nbeats", "esrnn", "tcn"}, window_sampling_limit : {MaxLen},
     input_size : {1, 2}, output_size : {1, 2}, idx_to_sample_freq : {1},
     batch_size : {1, 2, 3}, complete_inputs : BOOLEAN, shuffle : BOOLEAN,
     len_sample_chunks : {<<>>, <<2>>, <<3>>, <<4>>},
     n_series_per_batch : {<<>>, <<1>>, <<2>>, <<3>>}]

InitConstruct == InitWith(IterDatasets, ConstructArgs)

SpecConstruct == InitConstruct /\ [][Construct]_vars

-----------------------------------------------------------------------------
(* What the claims speak of, read off the dataset and the loader's          *)
(* configuration position by position                                       *)

Channels == {"y", "available_mask", "sample_mask"}

\* time steps the store hands over, and the length after padding
KeptLen == Min(MaxLen, self.window_sampling_limit)
PadLen == self.input_size + self.output_size
ExpectedLen == IF self.model = "nbeats" THEN KeptLen + PadLen ELSE KeptLen

\* the value of channel c of series i at step q (from 1) of its padded row
PaddedAt(i, c, q) ==
    LET left == IF self.model = "nbeats" THEN self.input_size ELSE 0
    IN  IF q <= left \/ q > left + KeptLen THEN 0
        ELSE ts_tensor[i][c][(MaxLen - KeptLen) + (q - left)]

\* the window of series i that starts at offset off of the padded row
WindowAt(i, c, off) == [t \in 1..self.windows_size |-> PaddedAt(i, c, off + t)]

\* k: windows per series
WindowsPerSerie == ((ExpectedLen - self.windows_size) \div self.idx_to_sample_freq) + 1

\* sum of seq[lo..hi]
RECURSIVE SumRange(_, _, _)
SumRange(seq, lo, hi) == IF lo > hi THEN 0 ELSE seq[lo] + SumRange(seq, lo + 1, hi)

\* the completeness policy on a window given by its two masks
Complete(available, sample) ==
    /\ SumRange(sample, self.windows_size - self.output_size + 1, self.windows_size)
          = self.output_size
    /\ self.complete_inputs =>
          SumRange(available, 1, self.windows_size - self.output_size)
             = self.windows_size - self.output_size

\* the series and the offset of flat window j (from 0) of a request ix
SerieOf(ix, j) == ix[(j \div WindowsPerSerie) + 1]
OffsetOf(j) == (j % WindowsPerSerie) * self.idx_to_sample_freq

\* the flat windows of a request ix that satisfy the policy
Eligible(ix) ==
    {j \in 0..(Len(ix) * WindowsPerSerie - 1) :
        Complete(WindowAt(SerieOf(ix, j), "available_mask", OffsetOf(j)),
                 WindowAt(SerieOf(ix, j), "sample_mask", OffsetOf(j)))}

Rows(b) == 1..Len(b.idxs)

Built == result \in {"ok", "AssertionError"}

Concat(chunks) ==
    LET RECURSIVE Cat(_)
        Cat(n) == IF n = 0 THEN <<>> ELSE Cat(n - 1) \o chunks[n]
    IN  Cat(Len(chunks))

IsPrefix(a, b) == Len(a) <= Len(b) /\ a = SubSeq(b, 1, Len(a))

-----------------------------------------------------------------------------
(* C1 *)

\* C1: every window of every batch returned, by indexing or by iteration,
\* has its sample_mask complete over the last output_size steps and, when
\* complete_inputs is set, its available_mask complete over the steps before.
C1_WindowsComplete ==
    result = "ok" =>
        /\ Len(batch.sample_mask) = Len(batch.idxs)
        /\ Len(batch.available_mask) = Len(batch.idxs)
        /\ \A r \in Rows(batch) :
              /\ Len(batch.sample_mask[r]) = self.windows_size
              /\ Len(batch.available_mask[r]) = self.windows_size
              /\ Complete(batch.available_mask[r], batch.sample_mask[r])

\* a batch of an iteration under complete_inputs that left windows out
C1_Witness ==
    /\ result = "ok"
    /\ pc = "running"
    /\ self.complete_inputs
    /\ ~self.shuffle
    /\ Len(batch.idxs) >= 2
    /\ Len(batch.idxs) < n_windows

-----------------------------------------------------------------------------
(* C2 *)

\* C2: a pass hands the ordered sequence of sampleable series to the indexing
\* operation in consecutive non-empty chunks of n_series_per_batch (the last
\* may be smaller); at the end of the pass the chunks concatenate to the
\* stored sequence (shuffle off) or to a permutation of it (shuffle on).
C2_EpochCoverage ==
    pc \in {"running", "done", "failed"} =>
        \A all \in {Concat(handed)} :
            /\ IsPrefix(all, sample_idxs)
            /\ \A c \in 1..Len(handed) :
                  /\ Len(handed[c]) >= 1
                  /\ Len(handed[c]) <= self.n_series_per_batch
                  /\ c < Len(handed) => Len(handed[c]) = self.n_series_per_batch
            /\ ~self.shuffle => sample_idxs = self.sampleable_ts_idxs
            /\ self.shuffle =>
                  /\ Len(sample_idxs) = Len(self.sampleable_ts_idxs)
                  /\ Range(sample_idxs) = Range(self.sampleable_ts_idxs)
            /\ pc = "done" =>
                  /\ all = sample_idxs
                  /\ \A i \in Range(self.sampleable_ts_idxs) :
                        Cardinality({q \in 1..Len(all) : all[q] = i}) = 1

\* a finished shuffled pass with a smaller last chunk and a changed order
C2_Witness ==
    /\ pc = "done"
    /\ self.shuffle
    /\ Len(handed) = 2
    /\ Len(handed[1]) = 2
    /\ Len(handed[2]) = 1
    /\ sample_idxs # self.sampleable_ts_idxs

-----------------------------------------------------------------------------
(* C3 *)

C3_Counts ==
    status = "ok" =>
        /\ self.n_batches >= 0
        /\ self.n_batches * self.n_series_per_batch >= self.n_sampleable_ts
        /\ (self.n_batches - 1) * self.n_series_per_batch < self.n_sampleable_ts
        /\ idx <= self.n_batches
        /\ pc \in {"running", "done"} => Len(handed) = idx
        /\ pc = "running" => idx >= 1 /\ result = "ok"
        /\ pc = "done" => idx = self.n_batches
        /\ pc = "failed" => idx < self.n_batches /\ result # "ok"

\* C3: n_batches is ceil(n_sampleable_ts / n_series_per_batch); a pass in
\* which no batch fails ends after exactly n_batches batches, a pass always
\* ends, and so does every pass started after an earlier one.
C3_IterationLength ==
    /\ []C3_Counts
    /\ (pc = "created") ~> (pc \in {"done", "failed"})

\* a second pass that ended after a number of batches that rounding decides
C3_Witness ==
    /\ restarted
    /\ pc = "done"
    /\ idx = self.n_batches
    /\ self.n_batches = 2
    /\ self.n_sampleable_ts = 3
    /\ self.n_series_per_batch = 2

-----------------------------------------------------------------------------
(* C4 *)

\* C4: with shuffle a batch has exactly batch_size windows, each eligible;
\* without it the batch is every eligible window of the request once, in
\* window order.
C4_BatchSize ==
    result = "ok" =>
        /\ Len(batch.S) = Len(windows_idxs)
        /\ Len(batch.Y) = Len(windows_idxs)
        /\ Len(batch.available_mask) = Len(windows_idxs)
        /\ Len(batch.sample_mask) = Len(windows_idxs)
        /\ Len(batch.idxs) = Len(windows_idxs)
        /\ IF self.shuffle
           THEN /\ Len(windows_idxs) = self.batch_size
                /\ Range(windows_idxs) \subseteq Eligible(index)
           ELSE /\ Len(windows_idxs) = Cardinality(Eligible(index))
                /\ Range(windows_idxs) = Eligible(index)
                /\ \A u, v \in 1..Len(windows_idxs) :
                      u < v => windows_idxs[u] < windows_idxs[v]

\* a shuffled batch larger than the eligible set of two series: a repeat
C4_Witness ==
    /\ result = "ok"
    /\ self.shuffle
    /\ Len(index) = 2
    /\ Cardinality(Eligible(index)) < self.batch_size
    /\ Len(windows_idxs) = 2
    /\ windows_idxs[1] = windows_idxs[2]

-----------------------------------------------------------------------------
(* C5 *)

C5_Threshold == IF self.complete_inputs THEN self.windows_size ELSE self.output_size

C5_Sampleable ==
    status = "ok" =>
        /\ \A i \in DOMAIN ts_tensor :
              (i \in Range(self.sampleable_ts_idxs))
                 <=> (SumRange(ts_tensor[i].sample_mask, 1, MaxLen) > C5_Threshold)
        /\ \A u, v \in 1..Len(self.sampleable_ts_idxs) :
              u < v => self.sampleable_ts_idxs[u] < self.sampleable_ts_idxs[v]
        /\ self.n_sampleable_ts = Len(self.sampleable_ts_idxs)

\* C5: the sampleable series are exactly those whose sample_mask sums to
\* more than the threshold, stored ascending with n_sampleable_ts their
\* number, and no indexing or iteration changes them.
C5_SampleableSeries ==
    /\ []C5_Sampleable
    /\ [][status = "ok" =>
            /\ self'.sampleable_ts_idxs = self.sampleable_ts_idxs
            /\ self'.n_sampleable_ts = self.n_sampleable_ts]_vars

\* after a batch: one series exactly at the threshold is out, another is in
C5_Witness ==
    /\ status = "ok"
    /\ result = "ok"
    /\ \E i \in DOMAIN ts_tensor :
          /\ SumRange(ts_tensor[i].sample_mask, 1, MaxLen) = C5_Threshold
          /\ i \notin Range(self.sampleable_ts_idxs)
    /\ self.n_sampleable_ts >= 1

-----------------------------------------------------------------------------
(* C6 *)

C6_SeriesPerBatch ==
    IF args.n_series_per_batch = <<>>
    THEN (IF args.batch_size < n_series THEN args.batch_size ELSE n_series)
    ELSE args.n_series_per_batch[1]

C6_UnknownModel == args.model # "nbeats" /\ args.model # "esrnn"
C6_ShortChunks ==
    /\ args.len_sample_chunks # <<>>
    /\ args.len_sample_chunks[1] < args.input_size + args.output_size
C6_NotMultiple == args.batch_size % C6_SeriesPerBatch # 0
C6_TooManySeries == C6_SeriesPerBatch > n_series

\* C6: construction raises, leaving no loader, exactly when the model is
\* unknown, len_sample_chunks is given and too short, batch_size is no
\* multiple of n_series_per_batch, or n_series_per_batch exceeds the series
\* count; otherwise the loader and its derived attributes are defined.
C6_Construction ==
    status # "new" =>
        /\ (status = "raised") <=>
              (C6_UnknownModel \/ C6_ShortChunks \/ C6_NotMultiple \/ C6_TooManySeries)
        /\ status = "raised" => self = NoLoader
        /\ status = "ok" =>
              /\ self.windows_size \in Nat \ {0}
              /\ self.padding \in Nat \X Nat
              /\ self.n_sampleable_ts = Len(self.sampleable_ts_idxs)
              /\ Range(self.sampleable_ts_idxs) \subseteq DOMAIN ts_tensor
              /\ self.n_batches \in Nat
              /\ self.n_series_per_batch = C6_SeriesPerBatch

\* construction that raised for the series count alone
C6_Witness ==
    /\ status = "raised"
    /\ C6_TooManySeries
    /\ ~C6_UnknownModel
    /\ ~C6_ShortChunks
    /\ ~C6_NotMultiple

-----------------------------------------------------------------------------
(* C7 *)

\* the request can be windowed at all
C7_Windowable == Len(index) > 0 /\ ExpectedLen >= self.windows_size

C7_Outcome ==
    result # "none" =>
        /\ (C7_Windowable /\ Eligible(index) = {}) =>
              /\ result = "AssertionError"
              /\ batch = NoBatch
        /\ (C7_Windowable /\ Eligible(index) # {}) =>
              /\ result = "ok"
              /\ Len(batch.idxs) >= 1
        /\ result = "AssertionError" => C7_Windowable /\ Eligible(index) = {}

\* C7: a request without eligible windows fails and returns no batch, the
\* loader is as it was, and a later request that has eligible windows
\* succeeds whatever failed before it.
C7_EmptyEligibleFails ==
    /\ []C7_Outcome
    /\ [][status = "ok" => self' = self /\ ts_tensor' = ts_tensor /\ args' = args]_vars

\* a request that succeeded right after one that failed for its windows
C7_Witness ==
    /\ pc = "idle"
    /\ prev_result = "AssertionError"
    /\ result = "ok"

-----------------------------------------------------------------------------
(* C8 *)

\* C8 as stated: with no sampleable series, iterating the loader fails; it
\* does not complete
C8_EmptyIterationFails ==
    (status = "ok" /\ self.n_sampleable_ts = 0) => pc # "done"

\* C8 as the code has it: with no sampleable series n_batches is 0 and a
\* pass ends at once, having produced no batch and raised nothing
C8_EmptyIterationCompletes ==
    (status = "ok" /\ self.n_sampleable_ts = 0) =>
        /\ self.n_batches = 0
        /\ pc \notin {"running", "failed"}
        /\ pc \in {"created", "done"} =>
              /\ handed = <<>>
              /\ idx = 0
              /\ result = "none"
              /\ batch = NoBatch

\* a pass over a loader without sampleable series that has ended
C8_Witness ==
    /\ status = "ok"
    /\ self.n_sampleable_ts = 0
    /\ pc = "done"

-----------------------------------------------------------------------------
(* C10 *)

\* C10: a request of n series is cut into n * k windows, k = (L - W) div S + 1,
\* series by series and offset by offset; row j of the windows, of the static
\* rows and of the series indices belongs to series j div k of the request,
\* so every row of a batch carries the series its window was cut from.
C10_WindowLayout ==
    Built =>
        /\ n_windows = Len(index) * WindowsPerSerie
        /\ result = "ok" =>
              \A r \in Rows(batch) :
                 /\ windows_idxs[r] \in 0..(n_windows - 1)
                 /\ batch.Y[r] =
                       WindowAt(SerieOf(index, windows_idxs[r]), "y", OffsetOf(windows_idxs[r]))
                 /\ batch.available_mask[r] =
                       WindowAt(SerieOf(index, windows_idxs[r]), "available_mask",
                                OffsetOf(windows_idxs[r]))
                 /\ batch.sample_mask[r] =
                       WindowAt(SerieOf(index, windows_idxs[r]), "sample_mask",
                                OffsetOf(windows_idxs[r]))
                 /\ batch.S[r] = s_matrix(SerieOf(index, windows_idxs[r]))
                 /\ batch.idxs[r] = SerieOf(index, windows_idxs[r])
                 /\ batch.idxs[r] \in Range(index)
                 /\ \A t \in 1..Len(batch.Y[r]) :
                       batch.Y[r][t] # 0 => batch.Y[r][t] \div 10 = batch.idxs[r] + 1

\* a batch of two series in reverse order, stride 2, several windows each
C10_Witness ==
    /\ result = "ok"
    /\ Len(index) = 2
    /\ index[1] > index[2]
    /\ self.idx_to_sample_freq = 2
    /\ WindowsPerSerie >= 2
    /\ \E r1, r2 \in Rows(batch) :
          /\ batch.idxs[r1] # batch.idxs[r2]
          /\ windows_idxs[r2] % WindowsPerSerie >= 1

====
